---- MODULE Spec2Model ----
(***************************************************************************)
(* Model of the Summarizer script (src/main.py): the recursive schema      *)
(* normaliser clean_schema, the PDF text extractor load_file, and the      *)
(* linear main pipeline extract -> credential -> schema -> generate ->     *)
(* validate -> render.                                                     *)
(*                                                                         *)
(* Python values are tagged pairs so that values of different Python types *)
(* are never confused: <<"s", str>> a string, <<"b", bool>> a boolean,     *)
(* <<"n", "None">> None, <<"d", f>> a dict (f a function on its keys),     *)
(* <<"l", seq>> a list.  A Python str that the program takes apart (page   *)
(* text, company name, file name) is a sequence of one-character strings.  *)
(***************************************************************************)
EXTENDS Integers, Sequences, FiniteSets, TLC

VARIABLES
    schema,      \* clean_schema: the argument of the outermost call
    cleaned,     \* clean_schema: its return value
    recleaned,   \* clean_schema applied to that return value
    cpc,         \* position of the clean_schema harness
    pc,          \* main: position of the script
    pdf,         \* the file meta_10k.pdf as the file system and PyPDF2 present it
    environ,     \* os.environ['GEMINI_API_KEY'] after load_dotenv (None: unset)
    uncaught,    \* an exception left load_file
    text,        \* main: text
    api_key,     \* main: api_key
    configured,  \* genai.configure has been called
    api_schema,  \* main: api_schema
    requests,    \* the generate_content calls sent to the generation API
    response,    \* main: response
    ar,          \* main: ar, the validated AnnualReport
    filename,    \* main: filename
    files,       \* the files written by write_pdf
    out          \* what has been printed, one tag per message

cvars == <<schema, cleaned, recleaned, cpc>>
pvars == <<pc, pdf, environ, uncaught, text, api_key, configured, api_schema,
           requests, response, ar, filename, files, out>>
vars == <<cvars, pvars>>

\* ------------------------------------------------------------ Python values

Str(v) == <<"s", v>>
Bool(b) == <<"b", b>>
None == <<"n", "None">>
\* a name of the script that has not been assigned yet
Unassigned == <<"u", "unassigned">>
\* an object: an API response, an AnnualReport
Obj(r) == <<"o", r>>
Dict(f) == <<"d", f>>
List(s) == <<"l", s>>

IsDict(v) == v[1] = "d"
IsList(v) == v[1] = "l"

EmptyMap == [k \in {} |-> None]

\* --------------------------------------------------------------- clean_schema

\* The list of line 79 with '$ref' forgotten.
ExcludedKeys_NoRef == {"title", "description", "$defs"}

\* Keys dropped from a node without 'anyOf' (main.py line 79).
ExcludedKeys == {"title", "description", "$ref", "$defs"}

\* Keys dropped from a non-null branch of an 'anyOf' (main.py line 75).
BranchExcludedKeys == {"title", "description"}

\* item.get('type') == 'null' (main.py line 70); item is the dict's key map.
IsNullBranch(item) == "type" \in DOMAIN item /\ item["type"] = Str("null")

RECURSIVE clean_schema(_)
RECURSIVE FlattenAnyOf(_, _)

\* {k: clean_schema(v) for k, v in item.items() if k not in excluded}
CleanFields(item, excluded) ==
    [k \in (DOMAIN item) \ excluded |-> clean_schema(item[k])]

\* The loop of lines 69-76 over the remaining branches; every assignment
\* cleaned[k] = ... overwrites what an earlier branch stored under k.
FlattenAnyOf(items, acc) ==
    IF items = <<>> THEN acc
    ELSE LET item == Head(items)[2]
         IN  FlattenAnyOf(Tail(items),
                 IF IsNullBranch(item)
                 THEN ("nullable" :> Bool(TRUE)) @@ acc
                 ELSE CleanFields(item, BranchExcludedKeys) @@ acc)

clean_schema(s) ==
    IF IsDict(s)
    THEN IF "anyOf" \in DOMAIN s[2]
         THEN Dict(FlattenAnyOf(s[2]["anyOf"][2], EmptyMap))
         ELSE Dict(CleanFields(s[2], ExcludedKeys))
    ELSE IF IsList(s)
    THEN List([i \in 1..Len(s[2]) |-> clean_schema(s[2][i])])
    ELSE s

\* ------------------------------------------------------------------ load_file

\* bool(v) of a str or None
Truthy(v) == v[1] = "s" /\ v[2] # <<>>

\* a or b
Or(a, b) == IF Truthy(a) THEN a ELSE b

\* isinstance(exc, cls) for the exception classes met here: each is a
\* subclass of Exception and of no other class named in an except clause.
IsInstance(exc, cls) == cls = exc \/ cls = "Exception"

\* The except clause that handles exc, the first that matches, or "uncaught".
Catch(exc, clauses) ==
    IF \E i \in 1..Len(clauses) : IsInstance(exc, clauses[i])
    THEN clauses[CHOOSE i \in 1..Len(clauses) :
                    /\ IsInstance(exc, clauses[i])
                    /\ \A j \in 1..(i - 1) : ~IsInstance(exc, clauses[j])]
    ELSE "uncaught"

\* extract_text() of a page that raises
PageRaises == <<"x", "PdfReadError">>

RECURSIVE JoinPages(_)
\* "".join(page.extract_text() or "" for page in reader.pages)
JoinPages(pages) ==
    IF pages = <<>> THEN <<>>
    ELSE Or(Head(pages), Str(<<>>))[2] \o JoinPages(Tail(pages))

\* What the try body of load_file raises on file f, or "none".
LoadFileRaises(f) ==
    IF f.state = "missing" THEN "FileNotFoundError"
    ELSE IF f.state = "unopenable" THEN "PermissionError"
    ELSE IF f.state = "corrupt" THEN "PdfReadError"
    ELSE IF \E i \in 1..Len(f.pages) : f.pages[i] = PageRaises THEN "PdfReadError"
    ELSE "none"

\* load_file with its first except clause only.
LoadFileClauses_NoCatchAll == <<"FileNotFoundError">>

\* The except clauses of load_file, in order.
LoadFileClauses == <<"FileNotFoundError", "Exception">>

\* load_file(path): the value returned, what was printed, and whether an
\* exception left the function.
load_file(f) ==
    LET exc == LoadFileRaises(f)
        clause == Catch(exc, LoadFileClauses)
    IN  IF exc = "none"
        THEN [value |-> Str(JoinPages(f.pages)), printed |-> <<>>, uncaught |-> FALSE]
        ELSE IF clause = "FileNotFoundError"
        THEN [value |-> Str(<<>>), printed |-> <<"pdf_not_found">>, uncaught |-> FALSE]
        ELSE IF clause = "Exception"
        THEN [value |-> Str(<<>>), printed |-> <<"pdf_read_error">>, uncaught |-> FALSE]
        ELSE [value |-> Unassigned, printed |-> <<>>, uncaught |-> TRUE]

\* --------------------------------------------------------------- AnnualReport

RequiredFields == <<"company_name", "cik", "fiscal_year_end", "filing_date">>
DateFields == {"fiscal_year_end", "filing_date"}
NumberFields == {"total_revenue", "net_income", "total_assets", "total_liabilities",
                 "operating_cash_flow", "cash_and_equivalents"}
StringFields == {"company_name", "cik", "auditor", "business_description",
                 "management_discussion"}
FieldNames == DateFields \cup NumberFields \cup StringFields
                  \cup {"num_employees", "risk_factors"}

\* The JSON-schema type of a field's annotation without its Optional.
FieldType(name) ==
    IF name \in DateFields
    THEN ("type" :> Str("string")) @@ ("format" :> Str("date-time"))
    ELSE IF name \in NumberFields THEN "type" :> Str("number")
    ELSE IF name = "num_employees" THEN "type" :> Str("integer")
    ELSE IF name = "risk_factors"
    THEN ("type" :> Str("array")) @@ ("items" :> Dict("type" :> Str("string")))
    ELSE "type" :> Str("string")

\* The schema of one field as AnnualReport.model_json_schema() gives it: an
\* Optional field is the union of its type and null, with its default.
FieldSchema(name) ==
    IF \E i \in 1..Len(RequiredFields) : RequiredFields[i] = name
    THEN Dict(FieldType(name) @@ ("title" :> Str("Title"))
              @@ ("description" :> Str("Description")))
    ELSE Dict(("anyOf" :> List(<<Dict(FieldType(name)), Dict("type" :> Str("null"))>>))
              @@ ("default" :> None) @@ ("title" :> Str("Title"))
              @@ ("description" :> Str("Description")))

\* raw_schema = AnnualReport.model_json_schema()
RawSchema ==
    Dict(("type" :> Str("object")) @@ ("title" :> Str("AnnualReport"))
         @@ ("properties" :> Dict([name \in FieldNames |-> FieldSchema(name)]))
         @@ ("required" :> List([i \in 1..Len(RequiredFields) |-> Str(RequiredFields[i])])))

\* d.get(k, default)
Get(d, k, default) == IF k \in DOMAIN d[2] THEN d[2][k] ELSE default

\* api_schema_base of main
ApiSchemaBase(raw) ==
    Dict(("type" :> Get(raw, "type", Str("object")))
         @@ ("properties" :> Get(raw, "properties", Dict(EmptyMap)))
         @@ (IF "required" \in DOMAIN raw[2]
             THEN "required" :> raw[2]["required"] ELSE EmptyMap))

\* prompt of main; a literal of the source is one element
Prompt(t) ==
    <<"Analyze the annual report (10-K) and fill the data model based on it:\n\n">>
        \o t[2] \o <<"\n\n">>
        \o <<"The output needs to be in a JSON format matching the provided schema. No extra fields allowed!">>

\* ---------------------------------------------------------------- file name

\* s.replace(old, new) for a one-character old
Replace(s, old, new) == [i \in 1..Len(s) |-> IF s[i] = old THEN new ELSE s[i]]

Digits == <<"0", "1", "2", "3", "4", "5", "6", "7", "8", "9">>

RECURSIVE FormatInt(_)
\* f"{n}" of a non-negative int
FormatInt(n) ==
    IF n < 10 THEN <<Digits[n + 1]>>
    ELSE FormatInt(n \div 10) \o <<Digits[(n % 10) + 1]>>

\* company with the second replace left out
CompanyForFilename_SpacesOnly(name) == Replace(name, " ", "_")

\* company of main: ar.company_name.replace(" ", "_").replace("/", "_")
CompanyForFilename(name) == Replace(Replace(name, " ", "_"), "/", "_")

\* filename of main
Filename(record) ==
    <<"annual_report_">> \o CompanyForFilename(record.company_name[2]) \o <<"_">>
        \o FormatInt(record.fiscal_year_end.year) \o <<".pdf">>

\* ----------------------------------------------------------- the environment

\* Most pages of the PDF, longest company name.
MaxPages == 2
MaxNameLen == 2

PageTexts == {<<>>, <<"a">>, <<"b">>}
\* extract_text() of a page: a str, None, or an exception
PageResults == {Str(t) : t \in PageTexts} \cup {None, PageRaises}

PdfFiles ==
    {[state |-> st, pages |-> <<>>] : st \in {"missing", "unopenable", "corrupt"}}
        \cup {[state |-> "ok", pages |-> ps] :
                  ps \in UNION {[1..n -> PageResults] : n \in 0..MaxPages}}

ApiKeys == {None, Str(<<>>), Str(<<"k">>)}

NameChars == {" ", "/", "\\", ",", "M"}
CompanyNames == UNION {[1..n -> NameChars] : n \in 0..MaxNameLen}
Years == {987, 2024}

Records == {[company_name |-> Str(c), fiscal_year_end |-> [year |-> y]] :
                c \in CompanyNames, y \in Years}

\* What the generation API may answer with: JSON that validates as an
\* AnnualReport, JSON that violates the model (payload: the fields it does
\* hold), text that is no JSON.
Responses ==
    {[kind |-> "valid", payload |-> r] : r \in Records}
        \cup {[kind |-> k, payload |-> [company_name |-> Str(<<" ">>),
                                        fiscal_year_end |-> [year |-> 2024]]] :
                  k \in {"violating", "malformed"}}

\* ------------------------------------------------------------------- main

\* text is None, in place of not text
NotText_IsNone(t) == t = None

\* not text (line 100)
NotText(t) == ~Truthy(t)

\* api_key is None, in place of not api_key
NotApiKey_IsNone(k) == k = None

\* not api_key (line 106)
NotApiKey(k) == ~Truthy(k)

\* a validation that accepts every response
Validates_Anything(r) == TRUE

\* AnnualReport.model_validate_json(response.text) returns (does not raise)
Validates(r) == r[2].kind = "valid"

\* The except clauses of main's try, in order, and what each prints.
MainClauses == <<"BlockedPromptException", "Exception">>
HandlerPrints(exc) ==
    IF Catch(exc, MainClauses) = "BlockedPromptException" THEN "blocked" ELSE "unexpected"

Idle ==
    /\ pc = "idle"
    /\ pdf = [state |-> "missing", pages |-> <<>>]
    /\ environ = None
    /\ uncaught = FALSE
    /\ text = Unassigned
    /\ api_key = Unassigned
    /\ configured = FALSE
    /\ api_schema = Unassigned
    /\ requests = <<>>
    /\ response = Unassigned
    /\ ar = Unassigned
    /\ filename = Unassigned
    /\ files = {}
    /\ out = <<>>

Init ==
    /\ pc = "start"
    /\ pdf \in PdfFiles
    /\ environ \in ApiKeys
    /\ uncaught = FALSE
    /\ text = Unassigned
    /\ api_key = Unassigned
    /\ configured = FALSE
    /\ api_schema = Unassigned
    /\ requests = <<>>
    /\ response = Unassigned
    /\ ar = Unassigned
    /\ filename = Unassigned
    /\ files = {}
    /\ out = <<>>
    /\ schema = None
    /\ cleaned = None
    /\ recleaned = None
    /\ cpc = "idle"

\* text = load_file('meta_10k.pdf')
LoadFile ==
    /\ pc = "start"
    /\ LET r == load_file(pdf)
       IN  /\ text' = r.value
           /\ out' = out \o r.printed
           /\ uncaught' = r.uncaught
           /\ pc' = IF r.uncaught THEN "crashed" ELSE "loaded"
    /\ UNCHANGED <<pdf, environ, api_key, configured, api_schema, requests,
                   response, ar, filename, files, cvars>>

\* if not text: print(...); exit()
CheckText ==
    /\ pc = "loaded"
    /\ IF NotText(text)
       THEN pc' = "exited" /\ out' = Append(out, "exit_empty_text")
       ELSE pc' = "text_ok" /\ out' = out
    /\ UNCHANGED <<pdf, environ, uncaught, text, api_key, configured, api_schema,
                   requests, response, ar, filename, files, cvars>>

\* api_key = os.getenv('GEMINI_API_KEY'); if not api_key: print(...); exit()
GetKey ==
    /\ pc = "text_ok"
    /\ api_key' = environ
    /\ IF NotApiKey(environ)
       THEN pc' = "exited" /\ out' = out \o <<"key_not_set", "key_hint">>
       ELSE pc' = "key_ok" /\ out' = out
    /\ UNCHANGED <<pdf, environ, uncaught, text, configured, api_schema,
                   requests, response, ar, filename, files, cvars>>

\* genai.configure(api_key=api_key) and the schema for the API
Configure ==
    /\ pc = "key_ok"
    /\ configured' = TRUE
    /\ api_schema' = clean_schema(ApiSchemaBase(RawSchema))
    /\ pc' = "prepared"
    /\ UNCHANGED <<pdf, environ, uncaught, text, api_key, requests, response, ar,
                   filename, files, out, cvars>>

Request ==
    [model |-> "gemini-2.0-flash", contents |-> Prompt(text),
     response_mime_type |-> "application/json", response_schema |-> api_schema]

\* model.generate_content(...) returns a response
GenerateReturns ==
    /\ pc = "prepared"
    /\ requests' = Append(requests, Request)
    /\ \E r \in Responses : response' = Obj(r)
    /\ pc' = "responded"
    /\ UNCHANGED <<pdf, environ, uncaught, text, api_key, configured, api_schema,
                   ar, filename, files, out, cvars>>

\* model.generate_content(...) raises: the prompt was blocked, or any other
\* error of the call; the handler prints and the script ends
GenerateRaises ==
    /\ pc = "prepared"
    /\ requests' = Append(requests, Request)
    /\ \E exc \in {"BlockedPromptException", "GoogleAPIError"} :
           out' = Append(out, HandlerPrints(exc))
    /\ pc' = "done"
    /\ UNCHANGED <<pdf, environ, uncaught, text, api_key, configured, api_schema,
                   response, ar, filename, files, cvars>>

\* ar = AnnualReport.model_validate_json(response.text); on success the record
\* is printed and the file name derived (lines 146-195)
Validate ==
    /\ pc = "responded"
    /\ IF Validates(response)
       THEN /\ ar' = Obj(response[2].payload)
            /\ filename' = Str(Filename(response[2].payload))
            /\ out' = out \o <<"extracted", "record", "generating">>
            /\ pc' = "named"
       ELSE /\ out' = Append(out, HandlerPrints("ValidationError"))
            /\ pc' = "done"
            /\ UNCHANGED <<ar, filename>>
    /\ UNCHANGED <<pdf, environ, uncaught, text, api_key, configured, api_schema,
                   requests, response, files, cvars>>

\* HTML(string=html).write_pdf(filename) writes the file
WritePdf ==
    /\ pc = "named"
    /\ files' = files \cup {filename[2]}
    /\ out' = Append(out, "generated")
    /\ pc' = "done"
    /\ UNCHANGED <<pdf, environ, uncaught, text, api_key, configured, api_schema,
                   requests, response, ar, filename, cvars>>

\* HTML(string=html).write_pdf(filename) raises
WritePdfRaises ==
    /\ pc = "named"
    /\ out' = Append(out, HandlerPrints("OSError"))
    /\ pc' = "done"
    /\ UNCHANGED <<pdf, environ, uncaught, text, api_key, configured, api_schema,
                   requests, response, ar, filename, files, cvars>>

Next ==
    \/ LoadFile
    \/ CheckText
    \/ GetKey
    \/ Configure
    \/ GenerateReturns
    \/ GenerateRaises
    \/ Validate
    \/ WritePdf
    \/ WritePdfRaises

Spec == Init /\ [][Next]_vars

\* ------------------------------------------------- inputs of clean_schema

\* Longest 'anyOf' list of the generated schema trees.
MaxBranches == 2

AtomTypes == {"null", "string", "integer"}

\* What a type definition may carry besides its 'type'.
ExtraFields ==
    { EmptyMap,
      "title" :> Str("T"),
      "description" :> Str("D"),
      "$ref" :> Str("#/$defs/X"),
      "$defs" :> Dict("X" :> Dict("type" :> Str("string"))) }

NullType == Dict("type" :> Str("null"))

\* Leaf type definitions: {'type': t, ...} and the bare reference {'$ref': ...}.
Atoms ==
    {Dict(("type" :> Str(t)) @@ e) : t \in AtomTypes, e \in ExtraFields}
        \cup {Dict("$ref" :> Str("#/$defs/X"))}

\* The bare types, for the unions of one branch more.
CoreAtoms == {Dict("type" :> Str(t)) : t \in AtomTypes}

BranchLists ==
    UNION {[1..n -> Atoms] : n \in 1..MaxBranches}
        \cup [1..(MaxBranches + 1) -> CoreAtoms]

\* Keys a node may hold beside its 'anyOf' (what pydantic puts beside the
\* union of an Optional field, and a node that also declares a type).
Siblings ==
    { EmptyMap,
      ("type" :> Str("object")) @@ ("title" :> Str("T")) @@ ("default" :> None) }

Unions == {Dict(("anyOf" :> List(bs)) @@ sib) : bs \in BranchLists, sib \in Siblings}

\* The unions of bare types, for use below other nodes.
CoreUnions ==
    {Dict(("anyOf" :> List(bs)) @@ sib) :
        bs \in UNION {[1..n -> CoreAtoms] : n \in 1..MaxBranches}, sib \in Siblings}

Nodes == Atoms \cup CoreUnions

\* A node as the schema of a property of an object.
InObject(x) ==
    Dict(("type" :> Str("object")) @@ ("title" :> Str("T"))
         @@ ("properties" :> Dict(("a" :> x) @@ ("b" :> Dict(("type" :> Str("number"))
                                                   @@ ("description" :> Str("D"))))))
         @@ ("required" :> List(<<Str("b"), Str("a")>>))
         @@ ("$defs" :> Dict("X" :> x)))

\* A node as the item schema of an array, and inside a list of schemas.
InArray(x) ==
    Dict(("type" :> Str("array")) @@ ("description" :> Str("D"))
         @@ ("items" :> x)
         @@ ("prefixItems" :> List(<<x, Dict(("type" :> Str("string"))
                                            @@ ("title" :> Str("T")))>>)))

\* A node as the real branch of an Optional field.
InOptional(x) ==
    Dict(("anyOf" :> List(<<x, NullType>>)) @@ ("default" :> None)
         @@ ("title" :> Str("T")))

\* Schema trees with unions: a union at the root, or a leaf or a union of
\* bare types one level down.
UnionTrees == Unions \cup UNION {{InObject(x), InArray(x), InOptional(x)} : x \in Nodes}

\* Most levels of objects and arrays above a leaf of a union-free tree.
MaxDepth == 2

MetadataFields ==
    [ title |-> Str("T"), description |-> Str("D"), ref |-> Str("#/$defs/X"),
      defs |-> Dict("X" :> Dict(("type" :> Str("string")) @@ ("title" :> Str("T")))) ]

\* Leaves of the union-free trees: a type with any of the metadata keys.
PlainAtoms ==
    {Dict(("type" :> Str(t))
          @@ (IF "title" \in m THEN "title" :> MetadataFields.title ELSE EmptyMap)
          @@ (IF "description" \in m
              THEN "description" :> MetadataFields.description ELSE EmptyMap)
          @@ (IF "$ref" \in m THEN "$ref" :> MetadataFields.ref ELSE EmptyMap)
          @@ (IF "$defs" \in m THEN "$defs" :> MetadataFields.defs ELSE EmptyMap)) :
        t \in AtomTypes, m \in SUBSET {"title", "description", "$ref", "$defs"}}

RECURSIVE Nested(_, _)
\* the trees of at most d levels of objects and arrays above a leaf of S
Nested(S, d) ==
    IF d = 0 THEN S
    ELSE LET T == Nested(S, d - 1)
         IN  T \cup {InObject(x) : x \in T} \cup {InArray(x) : x \in T}

PlainTrees == Nested(PlainAtoms, MaxDepth)

SchemaTrees == UnionTrees \cup PlainTrees

\* ------------------------------------------------ clean_schema, applied

CInit ==
    /\ schema \in SchemaTrees
    /\ cleaned = None
    /\ recleaned = None
    /\ cpc = "input"
    /\ Idle

\* api_schema = clean_schema(api_schema_base)
Clean ==
    /\ cpc = "input"
    /\ cleaned' = clean_schema(schema)
    /\ cpc' = "cleaned"
    /\ UNCHANGED <<schema, recleaned, pvars>>

\* clean_schema applied to its own result
Reclean ==
    /\ cpc = "cleaned"
    /\ recleaned' = clean_schema(cleaned)
    /\ cpc' = "recleaned"
    /\ UNCHANGED <<schema, cleaned, pvars>>

CNext == Clean \/ Reclean

SpecClean == CInit /\ [][CNext]_vars

\* -------------------------------------------- properties of clean_schema

MetadataKeys == {"title", "description", "$ref", "$defs"}

RECURSIVE HasKey(_, _)
\* some mapping at some depth of tree t has a key of ks
HasKey(t, ks) ==
    IF IsDict(t)
    THEN \/ (DOMAIN t[2]) \cap ks # {}
         \/ \E k \in DOMAIN t[2] : HasKey(t[2][k], ks)
    ELSE IF IsList(t)
    THEN \E i \in 1..Len(t[2]) : HasKey(t[2][i], ks)
    ELSE FALSE

RECURSIVE WithoutMetadata(_)
\* t with the metadata keys removed from every mapping at every depth
WithoutMetadata(t) ==
    IF IsDict(t)
    THEN Dict([k \in (DOMAIN t[2]) \ MetadataKeys |-> WithoutMetadata(t[2][k])])
    ELSE IF IsList(t)
    THEN List([i \in 1..Len(t[2]) |-> WithoutMetadata(t[2][i])])
    ELSE t

IsUnion(t) == IsDict(t) /\ "anyOf" \in DOMAIN t[2]
Branches(t) == t[2]["anyOf"][2]
IsRealType(b) == IsDict(b) /\ "type" \in DOMAIN b[2] /\ b[2]["type"] # Str("null")

\* the union node t is one real-type branch plus one {'type': 'null'} branch
IsOptionalPair(t) ==
    /\ Len(Branches(t)) = 2
    /\ \E i \in 1..2 : Branches(t)[i] = NullType /\ IsRealType(Branches(t)[3 - i])

RealBranch(t) == CHOOSE b \in {Branches(t)[i] : i \in 1..2} : IsRealType(b)

RECURSIVE OptionalPairsOnly(_)
\* every union node of t, at every depth, is such a pair
OptionalPairsOnly(t) ==
    IF IsDict(t)
    THEN /\ IsUnion(t) => IsOptionalPair(t)
         /\ \A k \in DOMAIN t[2] : OptionalPairsOnly(t[2][k])
    ELSE IF IsList(t)
    THEN \A i \in 1..Len(t[2]) : OptionalPairsOnly(t[2][i])
    ELSE TRUE

\* C1: when every union node is a pair of one real-type branch and one null
\* branch, the result for a union node is nullable = true merged with the real
\* branch's fields minus title/description, and no 'anyOf' key is left at any
\* depth of the result.
C1_OptionalCollapsed ==
    (cpc # "input" /\ OptionalPairsOnly(schema)) =>
        /\ ~HasKey(cleaned, {"anyOf"})
        /\ (IsUnion(schema)) =>
             cleaned = Dict(("nullable" :> Bool(TRUE))
                            @@ CleanFields(RealBranch(schema)[2], {"title", "description"}))

\* C2: the result holds none of the keys title, description, $ref, $defs at
\* any depth, also inside a node produced by collapsing a union branch.
C2_NoMetadataAnywhere ==
    cpc # "input" => ~HasKey(cleaned, MetadataKeys)

\* C3: for a schema without any 'anyOf' key the result is the schema with
\* exactly title, description, $ref and $defs removed from every mapping at
\* every depth, everything else unchanged.
C3_PlainIsStripped ==
    (cpc # "input" /\ ~HasKey(schema, {"anyOf"})) => cleaned = WithoutMetadata(schema)

\* C3 witness: a union-free schema with metadata below the root has been cleaned.
C3_Witness ==
    /\ cpc = "cleaned"
    /\ ~HasKey(schema, {"anyOf"})
    /\ \E k \in DOMAIN schema[2] : HasKey(schema[2][k], MetadataKeys)
    /\ \E k \in DOMAIN schema[2] : IsList(schema[2][k])
    /\ cleaned # schema

\* C4: clean_schema(clean_schema(s)) = clean_schema(s) for every schema s.
C4_Idempotent ==
    cpc = "recleaned" => recleaned = cleaned

NonNullBranches(t) == SelectSeq(Branches(t), LAMBDA b : ~IsNullBranch(b[2]))

\* C10: for a union with more than one non-null branch the result is the
\* fields of the first non-null branch only, plus nullable = true when a null
\* branch is present; a later non-null branch adds and overwrites nothing.
C10_FirstNonNullWins ==
    (cpc # "input" /\ IsUnion(schema) /\ Len(NonNullBranches(schema)) > 1) =>
        cleaned = Dict((IF Len(NonNullBranches(schema)) < Len(Branches(schema))
                        THEN "nullable" :> Bool(TRUE) ELSE EmptyMap)
                       @@ CleanFields(NonNullBranches(schema)[1][2], {"title", "description"}))

\* -------------------------------------------- properties of the pipeline

Printed(tag) == \E i \in 1..Len(out) : out[i] = tag

\* C5: when extraction yields the empty string the script halts with a
\* diagnostic and no later stage occurs: the credential is never read, the
\* API is neither configured nor called, and no file is written.
C5_EmptyTextHalts ==
    (text = Str(<<>>) /\ pc \notin {"start", "loaded"}) =>
        /\ pc = "exited"
        /\ out[Len(out)] = "exit_empty_text"
        /\ api_key = Unassigned
        /\ ~configured
        /\ requests = <<>>
        /\ files = {}

\* C5 witness: a PDF that opens and a credential that is set, yet the text
\* is empty and the script has halted.
C5_Witness ==
    /\ pc = "exited"
    /\ text = Str(<<>>)
    /\ pdf.state = "ok"
    /\ Len(pdf.pages) > 0
    /\ environ = Str(<<"k">>)

\* C6: when GEMINI_API_KEY is absent or empty the script halts before the API
\* is configured or called and no file is written; a generation call is sent
\* only with a non-empty text and a non-empty credential in hand.
C6_MissingKeyHalts ==
    /\ (api_key \in {None, Str(<<>>)}) =>
           /\ pc = "exited"
           /\ Printed("key_not_set")
           /\ ~configured
           /\ requests = <<>>
           /\ files = {}
    /\ (configured \/ requests # <<>>) => (Truthy(text) /\ Truthy(api_key))

\* C6 witness: text was extracted, the credential is empty, the script halted.
C6_Witness ==
    /\ pc = "exited"
    /\ Truthy(text)
    /\ api_key = Str(<<>>)

GenerationFailed == pc = "done" /\ response = Unassigned
ValidationFailed == pc = "done" /\ response # Unassigned /\ response[2].kind # "valid"

\* C7: a file is written only after the generation call returned and its
\* response validated as an AnnualReport; when the call fails or is blocked, or
\* the response does not validate, the run ends with a diagnostic, after one
\* call, and no file is written.
C7_NoPartialSuccess ==
    /\ (pc = "named" \/ files # {}) =>
           /\ Len(requests) = 1
           /\ response # Unassigned
           /\ response[2].kind = "valid"
           /\ ar = Obj(response[2].payload)
    /\ (GenerationFailed \/ ValidationFailed) =>
           /\ files = {}
           /\ out[Len(out)] \in {"blocked", "unexpected"}
           /\ Len(requests) = 1
           /\ ar = Unassigned
    /\ Len(requests) <= 1

\* C7 witness: the response did not validate and the run is over.
C7_Witness ==
    /\ ValidationFailed
    /\ response[2].kind = "violating"
    /\ out[Len(out)] = "unexpected"

RECURSIVE ConcatText(_, _)
\* the texts of pages, in order, a page of `skipped` counting as empty
ConcatText(pages, skipped) ==
    IF pages = <<>> THEN <<>>
    ELSE (IF Head(pages) \in skipped THEN <<>> ELSE Head(pages)[2])
             \o ConcatText(Tail(pages), skipped)

SomePageRaises == \E i \in 1..Len(pdf.pages) : pdf.pages[i] = PageRaises

\* C8 as stated: load_file lets no exception out; a file that is missing or
\* does not open gives the empty string and a printed error; in a file that
\* opens, a page that is unreadable (extraction gives None or fails) or empty
\* counts as empty and the result is the other pages' text in page order.
C8_PagesTolerated ==
    pc # "start" =>
        /\ ~uncaught
        /\ (pdf.state \in {"missing", "unopenable"}) =>
               (text = Str(<<>>) /\ (Printed("pdf_not_found") \/ Printed("pdf_read_error")))
        /\ (pdf.state = "ok") =>
               text = Str(ConcatText(pdf.pages, {None, PageRaises}))

\* C8 amended: as above for a page whose extraction returns None or the empty
\* string; when the reader cannot be built or the extraction of any page
\* raises, load_file prints an error and returns the empty string, the text of
\* the other pages included.
C8_PagesToleratedUnlessRaising ==
    pc # "start" =>
        /\ ~uncaught
        /\ (pdf.state = "missing") => (text = Str(<<>>) /\ Printed("pdf_not_found"))
        /\ (pdf.state \in {"unopenable", "corrupt"}) =>
               (text = Str(<<>>) /\ Printed("pdf_read_error"))
        /\ (pdf.state = "ok" /\ ~SomePageRaises) =>
               /\ text = Str(ConcatText(pdf.pages, {None}))
               /\ ~Printed("pdf_not_found")
               /\ ~Printed("pdf_read_error")
        /\ (pdf.state = "ok" /\ SomePageRaises) =>
               (text = Str(<<>>) /\ Printed("pdf_read_error"))

\* C8 witness: a page without text before a page with text; the text of the
\* second page was returned.
C8_Witness ==
    /\ pc = "loaded"
    /\ pdf.state = "ok"
    /\ Len(pdf.pages) = 2
    /\ pdf.pages[1] = None
    /\ pdf.pages[2] = Str(<<"b">>)
    /\ text = Str(<<"b">>)

\* each space and each '/' as an underscore, the rest as it is
Underscored(name) ==
    [i \in 1..Len(name) |-> IF name[i] \in {" ", "/"} THEN "_" ELSE name[i]]

YearText(y) == IF y = 987 THEN <<"9", "8", "7">> ELSE <<"2", "0", "2", "4">>

\* C9: the file name is annual_report_<C>_<Y>.pdf, Y the year of
\* fiscal_year_end, C the company name with each space and each path separator
\* '/' replaced by an underscore and every other character untouched; the name
\* holds no space and no '/'.
C9_FilenameDerived ==
    filename # Unassigned =>
        /\ filename = Str(<<"annual_report_">> \o Underscored(ar[2].company_name[2])
                          \o <<"_">> \o YearText(ar[2].fiscal_year_end.year) \o <<".pdf">>)
        /\ \A i \in 1..Len(filename[2]) : filename[2][i] \notin {" ", "/"}
        /\ files \subseteq {filename[2]}

\* C9 witness: a name with a space and a slash has been turned into a file name.
C9_Witness ==
    /\ pc = "done"
    /\ files # {}
    /\ ar[2].company_name = Str(<<" ", "/">>)
    /\ ar[2].fiscal_year_end.year = 987

====
